---- MODULE Spec2Model ----
(***************************************************************************)
(* A model of allsorts' font_data_impl.rs: the FontDataImpl face object,   *)
(* its LazyLoad caches, the cmap subtable selection and the glyph name     *)
(* de-duplication.                                                         *)
(*                                                                         *)
(* Tables are modelled by what the code observes of them: whether the      *)
(* provider has them, whether reading them works and whether they parse.   *)
(* Strings are TLA+ strings and format!() is modelled by concatenation.    *)
(***************************************************************************)
EXTENDS Integers, Sequences, FiniteSets, TLC

VARIABLES
    pc,             \* position of the caller: which operation ran last
    arg,            \* the arguments of that operation, as a tuple
    names,          \* the glyph names handed to unique_glyph_names
    unique_names,   \* the Vec unique_glyph_names builds and returns
    seen_names,     \* the HashMap `seen` of unique_glyph_names
    cmap,           \* the parsed view of the cmap table bytes
    good_cmap,      \* the Option returned by find_good_cmap_subtable
    provider,       \* FontTableProvider: tag -> what the provider holds
    images,         \* what the provider's sbix, CBLC and CBDT tables hold
    usize_bits,     \* pointer width of the build target
    face,           \* the FontDataImpl, once constructed (caches apart)
    caches,         \* the six LazyLoad fields of the FontDataImpl
    invoked,        \* the caches whose do_load closure ran in the last call
    entries,        \* entries of lookup_sbix_glyph_bitmap in the last call
    ret             \* the value returned by the last call

vars == <<pc, arg, names, unique_names, seen_names, cmap, good_cmap, provider,
          images, usize_bits, face, caches, invoked, entries, ret>>

\* Value of a variable that the specification at hand does not use.
Unused == "unused"

(***************************************************************************)
(* Option and Result values.                                               *)
(***************************************************************************)
None == [kind |-> "None"]
Some(v) == [kind |-> "Some", val |-> v]
Ok(v) == [kind |-> "Ok", val |-> v]
Err(e) == [kind |-> "Err", err |-> e]
IsOk(r) == r.kind = "Ok"
IsErr(r) == r.kind = "Err"
IsSome(o) == o.kind = "Some"

\* How a call that has no Result ends: with a value, or in a panic.
Returned(v) == [kind |-> "Returned", val |-> v]
Panic(what) == [kind |-> "Panic", what |-> what]

(***************************************************************************)
(* unique_glyph_names                                                      *)
(***************************************************************************)
Digits == <<"0", "1", "2", "3", "4", "5", "6", "7", "8", "9">>

RECURSIVE Decimal(_)
\* Display of a non-negative integer.
Decimal(n) ==
    IF n < 10 THEN Digits[n + 1]
    ELSE Decimal(n \div 10) \o Digits[(n % 10) + 1]

\* format!("{:02}", alt): decimal, zero-padded to a width of at least two.
Fmt02(alt) == IF alt < 10 THEN "0" \o Decimal(alt) ELSE Decimal(alt)

\* format!("{}.alt{:02}", name, alt)
AltName(name, alt) == name \o ".alt" \o Fmt02(alt)

\* seen.entry(name).or_insert(0), the and_modify left out: the count of a name
\* stays at 0.
SeenEntryNoModify(seen, name) ==
    IF name \in DOMAIN seen THEN seen[name] ELSE 0

\* seen.entry(name).and_modify(|alt| *alt += 1).or_insert(0)
SeenEntry(seen, name) ==
    IF name \in DOMAIN seen THEN seen[name] + 1 ELSE 0

\* The name pushed for one input name, given its count.
UniqueName(name, alt) == IF alt = 0 THEN name ELSE AltName(name, alt)

RECURSIVE UniqueLoop(_, _, _)
\* The for loop: `rest` is what the iterator still yields.
UniqueLoop(rest, seen, out) ==
    IF rest = <<>> THEN out
    ELSE LET name == Head(rest)
             alt == SeenEntry(seen, name)
             seen2 == [n \in DOMAIN seen \cup {name} |->
                          IF n = name THEN alt ELSE seen[n]]
         IN  UniqueLoop(Tail(rest), seen2, Append(out, UniqueName(name, alt)))

\* One iteration of the for loop, for the name `name`: st holds the map `seen`
\* and the vector `unique_names` as the iterations before it left them.
UniqueStep(st, name) ==
    LET alt == SeenEntry(st.seen, name)
    IN  [seen |-> [n \in DOMAIN st.seen \cup {name} |->
                      IF n = name THEN alt ELSE st.seen[n]],
         out |-> Append(st.out, UniqueName(name, alt))]

unique_glyph_names(ns) == UniqueLoop(ns, <<>>, <<>>)

(***************************************************************************)
(* cmap encoding records and find_good_cmap_subtable                       *)
(***************************************************************************)
PlatformUNICODE == 0
PlatformMACINTOSH == 1
PlatformWINDOWS == 3

WINDOWS_SYMBOL == 0
WINDOWS_UNICODE_BMP_UCS2 == 1
WINDOWS_BIG5 == 4
WINDOWS_UNICODE_UCS4 == 10
MACINTOSH_APPLE_ROMAN == 0
MACINTOSH_UNICODE_UCS4 == 4

EncodingRecord(p, e, o) == [platform_id |-> p, encoding_id |-> e, offset |-> o]

\* The least element of a non-empty set of integers.
SetMin(S) == CHOOSE n \in S : \A m \in S : n <= m

\* Cmap::find_subtable: the first record with this platform and encoding.
find_subtable(records, platform, encoding) ==
    LET hits == {i \in 1..Len(records) :
                    /\ records[i].platform_id = platform
                    /\ records[i].encoding_id = encoding}
    IN  IF hits = {} THEN None ELSE Some(records[SetMin(hits)])

\* Cmap::find_subtable_for_platform: the first record with this platform.
find_subtable_for_platform(records, platform) ==
    LET hits == {i \in 1..Len(records) : records[i].platform_id = platform}
    IN  IF hits = {} THEN None ELSE Some(records[SetMin(hits)])

Found(encoding, opt) == Some(<<encoding, opt.val>>)

\* The same chain with the Apple Roman test moved ahead of the Symbol test.
find_good_cmap_subtable_roman_first(c) ==
    LET records == c.encoding_records
        ms4 == find_subtable(records, PlatformWINDOWS, WINDOWS_UNICODE_UCS4)
        ms2 == find_subtable(records, PlatformWINDOWS, WINDOWS_UNICODE_BMP_UCS2)
        ap4 == find_subtable(records, PlatformUNICODE, MACINTOSH_UNICODE_UCS4)
        uni == find_subtable_for_platform(records, PlatformUNICODE)
        sym == find_subtable(records, PlatformWINDOWS, WINDOWS_SYMBOL)
        rom == find_subtable(records, PlatformMACINTOSH, MACINTOSH_APPLE_ROMAN)
        big == find_subtable(records, PlatformWINDOWS, WINDOWS_BIG5)
    IN  IF IsSome(ms4) THEN Found("Unicode", ms4)
        ELSE IF IsSome(ms2) THEN Found("Unicode", ms2)
        ELSE IF IsSome(ap4) THEN Found("Unicode", ap4)
        ELSE IF IsSome(uni) THEN Found("Unicode", uni)
        ELSE IF IsSome(rom) THEN Found("AppleRoman", rom)
        ELSE IF IsSome(sym) THEN Found("Symbol", sym)
        ELSE IF IsSome(big) THEN Found("Big5", big)
        ELSE None

find_good_cmap_subtable(c) ==
    LET records == c.encoding_records
        ms4 == find_subtable(records, PlatformWINDOWS, WINDOWS_UNICODE_UCS4)
        ms2 == find_subtable(records, PlatformWINDOWS, WINDOWS_UNICODE_BMP_UCS2)
        ap4 == find_subtable(records, PlatformUNICODE, MACINTOSH_UNICODE_UCS4)
        uni == find_subtable_for_platform(records, PlatformUNICODE)
        sym == find_subtable(records, PlatformWINDOWS, WINDOWS_SYMBOL)
        rom == find_subtable(records, PlatformMACINTOSH, MACINTOSH_APPLE_ROMAN)
        big == find_subtable(records, PlatformWINDOWS, WINDOWS_BIG5)
    IN  IF IsSome(ms4) THEN Found("Unicode", ms4)
        ELSE IF IsSome(ms2) THEN Found("Unicode", ms2)
        ELSE IF IsSome(ap4) THEN Found("Unicode", ap4)
        ELSE IF IsSome(uni) THEN Found("Unicode", uni)
        ELSE IF IsSome(sym) THEN Found("Symbol", sym)
        ELSE IF IsSome(rom) THEN Found("AppleRoman", rom)
        ELSE IF IsSome(big) THEN Found("Big5", big)
        ELSE None

(***************************************************************************)
(* The table provider and the parsers of the tables (external to           *)
(* font_data_impl.rs, modelled at their interface)                         *)
(***************************************************************************)
\* What the provider holds for a tag: no table, a well-formed table, a
\* table whose bytes do not parse, or a table that cannot be read.
TableStatus == {"absent", "ok", "corrupt", "unreadable"}

RequiredTags == {"cmap", "maxp", "hmtx", "hhea"}
OutlineTags == {"sbix", "SVG ", "glyf", "CFF "}
OptionalTags == {"vmtx", "vhea", "GDEF", "GSUB", "GPOS", "CBLC", "CBDT"}
InfoTags == {"head", "OS/2", "post"}
Tags == RequiredTags \cup OutlineTags \cup OptionalTags \cup InfoTags

\* The bytes of a table: whose they are and whether they parse.
TableBytes(p, tag) == [tag |-> tag, well_formed |-> p[tag] = "ok"]

\* FontTableProvider::has_table
has_table(p, tag) == p[tag] # "absent"

\* FontTableProvider::table_data: optional bytes, fails only on read error.
table_data(p, tag) ==
    CASE p[tag] = "absent" -> Ok(None)
      [] p[tag] = "unreadable" -> Err("ReadError")
      [] OTHER -> Ok(Some(TableBytes(p, tag)))

\* FontTableProvider::read_table_data: bytes, or fails when the table is
\* missing or cannot be read.
read_table_data(p, tag) ==
    CASE p[tag] = "absent" -> Err("MissingValue")
      [] p[tag] = "unreadable" -> Err("ReadError")
      [] OTHER -> Ok(TableBytes(p, tag))

\* ReadScope::new(bytes).read::<T>() for the tables whose content the model
\* does not look into: the parsed table is named by its tag.
ReadTable(bytes) ==
    IF bytes.well_formed THEN Ok([table |-> bytes.tag]) ELSE Err("BadValue")

\* The cmap table: its encoding records, the length of its bytes, and the
\* one place in it where a subtable starts.
Cmap(records, sub) ==
    [encoding_records |-> records,
     len |-> 4 + 8 * Len(records) + 16,
     subtable_at |-> 4 + 8 * Len(records),
     subtable |-> sub]

\* ReadScope::new(cmap_buf).read::<Cmap>(): reads the header and the
\* encoding records; the offsets of the records are not looked at.
ReadCmap(bytes, c) ==
    IF bytes.well_formed THEN Ok(c) ELSE Err("BadValue")

\* The subtables the model knows: one that does not parse, one that maps
\* the codes 65 and 66 only, one whose map_glyph fails on code 66.
Subtables == {"corrupt", "dense", "failing"}

\* ReadScope::new(data).read::<CmapSubtable>() on the cmap bytes from `offset`
ReadCmapSubtable(c, offset) ==
    IF offset = c.subtable_at /\ c.subtable # "corrupt"
    THEN Ok(c.subtable)
    ELSE Err("BadValue")

\* CmapSubtable::map_glyph
map_glyph(sub, char_code) ==
    CASE sub = "dense" /\ char_code \in {65, 66} -> Ok(Some(char_code - 29))
      [] sub = "failing" /\ char_code = 65 -> Ok(Some(7))
      [] sub = "failing" /\ char_code = 66 -> Err("BadIndex")
      [] OTHER -> Ok(None)

(***************************************************************************)
(* FontDataImpl::new                                                       *)
(***************************************************************************)
\* read_and_box_table
read_and_box_table(p, tag) == read_table_data(p, tag)

\* The conversion written as a cast (`offset as usize`), which truncates.
usize_cast(v, bits) ==
    IF bits < 32 THEN Ok(v % (2 ^ bits)) ELSE Ok(v)

\* usize::try_from(u32): fails only where usize is narrower than the value.
usize_try_from(v, bits) ==
    IF bits < 32 /\ v >= 2 ^ bits THEN Err("TryFromIntError") ELSE Ok(v)

\* charmap_info
charmap_info(cmap_buf, c) ==
    LET parsed == ReadCmap(cmap_buf, c)
    IN  IF IsErr(parsed) THEN parsed
        ELSE LET good == find_good_cmap_subtable(parsed.val)
             IN  IF IsSome(good)
                 THEN Ok(Some(<<good.val[1], good.val[2].offset>>))
                 ELSE Ok(None)

\* The classification with the glyf and CFF tests ahead of the sbix/SVG test.
OutlineFormatOutlinesFirst(p) ==
    IF has_table(p, "glyf") THEN "Glyf"
    ELSE IF has_table(p, "CFF ") THEN "Cff"
    ELSE "None"

\* The outline_format computed by new.
OutlineFormatOf(p) ==
    IF has_table(p, "sbix") \/ has_table(p, "SVG ") THEN "None"
    ELSE IF has_table(p, "glyf") THEN "Glyf"
    ELSE IF has_table(p, "CFF ") THEN "Cff"
    ELSE "None"

CacheNames == {"vmtx_table", "vhea_table", "gdef_cache", "gsub_cache",
               "gpos_cache", "embedded_images"}

NotLoaded == [kind |-> "NotLoaded"]
Loaded(opt) == [kind |-> "Loaded", val |-> opt]

\* new with the required tables read before the result of charmap_info is
\* looked at.
FontDataImplNewTablesFirst(p, c, bits) ==
    LET cmap_table == read_and_box_table(p, "cmap")
        info == charmap_info(cmap_table.val, c)
        maxp_data == read_table_data(p, "maxp")
        maxp_table == ReadTable(maxp_data.val)
        hmtx_table == read_and_box_table(p, "hmtx")
        hhea_data == read_table_data(p, "hhea")
        hhea_table == ReadTable(hhea_data.val)
        offset == usize_try_from(info.val.val[2], bits)
    IN  IF IsErr(cmap_table) THEN cmap_table
        ELSE IF IsErr(info) THEN info
        ELSE IF IsErr(maxp_data) THEN maxp_data
        ELSE IF IsErr(maxp_table) THEN maxp_table
        ELSE IF IsErr(hmtx_table) THEN hmtx_table
        ELSE IF IsErr(hhea_data) THEN hhea_data
        ELSE IF IsErr(hhea_table) THEN hhea_table
        ELSE IF ~IsSome(info.val) THEN Ok(None)
        ELSE IF IsErr(offset) THEN offset
        ELSE Ok(Some([cmap_table |-> c,
                      maxp_table |-> maxp_table.val,
                      hmtx_table |-> hmtx_table.val,
                      hhea_table |-> hhea_table.val,
                      cmap_subtable_offset |-> offset.val,
                      cmap_subtable_encoding |-> info.val.val[1],
                      outline_format |-> OutlineFormatOf(p)]))

\* The Result<Option<FontDataImpl>> of new; the LazyLoad fields, which new
\* sets to NotLoaded, are kept in the variable `caches`.
FontDataImplNew(p, c, bits) ==
    LET cmap_table == read_and_box_table(p, "cmap")
        info == charmap_info(cmap_table.val, c)
        maxp_data == read_table_data(p, "maxp")
        maxp_table == ReadTable(maxp_data.val)
        hmtx_table == read_and_box_table(p, "hmtx")
        hhea_data == read_table_data(p, "hhea")
        hhea_table == ReadTable(hhea_data.val)
        offset == usize_try_from(info.val.val[2], bits)
    IN  IF IsErr(cmap_table) THEN cmap_table
        ELSE IF IsErr(info) THEN info
        ELSE IF ~IsSome(info.val) THEN Ok(None)
        ELSE IF IsErr(maxp_data) THEN maxp_data
        ELSE IF IsErr(maxp_table) THEN maxp_table
        ELSE IF IsErr(hmtx_table) THEN hmtx_table
        ELSE IF IsErr(hhea_data) THEN hhea_data
        ELSE IF IsErr(hhea_table) THEN hhea_table
        ELSE IF IsErr(offset) THEN offset
        ELSE Ok(Some([cmap_table |-> c,
                      maxp_table |-> maxp_table.val,
                      hmtx_table |-> hmtx_table.val,
                      hhea_table |-> hhea_table.val,
                      cmap_subtable_offset |-> offset.val,
                      cmap_subtable_encoding |-> info.val.val[1],
                      outline_format |-> OutlineFormatOf(p)]))

(***************************************************************************)
(* LazyLoad::get_or_load                                                   *)
(***************************************************************************)
\* What a call of get_or_load does: the LazyLoad afterwards, the value
\* returned, and how many times it called do_load.  `do_load` is the
\* Result<Option<T>> that the closure produces when it is called.
LazyResult(cache, r, calls) == [cache |-> cache, ret |-> r, calls |-> calls]

\* get_or_load that takes Loaded(None) for a LazyLoad still to be loaded.
get_or_load_reload_absent(cache, do_load) ==
    IF cache.kind = "Loaded" /\ IsSome(cache.val)
    THEN LazyResult(cache, Ok(cache.val), 0)
    ELSE IF IsErr(do_load) THEN LazyResult(cache, do_load, 1)
    ELSE LazyResult(Loaded(do_load.val), Ok(do_load.val), 1)

\* get_or_load that stores a failed load as Loaded(None).
get_or_load_store_failure(cache, do_load) ==
    IF cache.kind = "Loaded" THEN LazyResult(cache, Ok(cache.val), 0)
    ELSE IF IsErr(do_load) THEN LazyResult(Loaded(None), do_load, 1)
    ELSE LazyResult(Loaded(do_load.val), Ok(do_load.val), 1)

\* get_or_load that stores Loaded(None) whatever the closure produced.
get_or_load_store_none(cache, do_load) ==
    IF cache.kind = "Loaded" THEN LazyResult(cache, Ok(cache.val), 0)
    ELSE IF IsErr(do_load) THEN LazyResult(cache, do_load, 1)
    ELSE LazyResult(Loaded(None), Ok(do_load.val), 1)

get_or_load(cache, do_load) ==
    CASE cache.kind = "Loaded" /\ IsSome(cache.val) ->
            LazyResult(cache, Ok(Some(cache.val.val)), 0)
      [] cache.kind = "Loaded" /\ ~IsSome(cache.val) ->
            LazyResult(cache, Ok(None), 0)
      [] cache.kind = "NotLoaded" ->
            IF IsErr(do_load) THEN LazyResult(cache, do_load, 1)
            ELSE LazyResult(Loaded(do_load.val), Ok(do_load.val), 1)

(***************************************************************************)
(* The closures of the cache-backed accessors                              *)
(***************************************************************************)
\* read_and_box_optional_table
read_and_box_optional_table(p, tag) == table_data(p, tag)

\* The closure of gdef_table and of vhea_table reading the table as a
\* required one (read_table_data): a table that is not there is an error.
LoadRequiredTable(p, tag) ==
    LET data == read_table_data(p, tag)
        table == ReadTable(data.val)
    IN  IF IsErr(data) THEN data
        ELSE IF IsErr(table) THEN table
        ELSE Ok(Some(table.val))

\* The closure of gdef_table and of vhea_table: the parsed table, if the
\* provider has it.
LoadOptionalTable(p, tag) ==
    LET data == table_data(p, tag)
        table == ReadTable(data.val.val)
    IN  IF IsErr(data) THEN data
        ELSE IF ~IsSome(data.val) THEN Ok(None)
        ELSE IF IsErr(table) THEN table
        ELSE Ok(Some(table.val))

\* The closure of gsub_cache and of gpos_cache: new_layout_cache over the
\* parsed LayoutTable, if the provider has it.
LoadLayoutCache(p, tag) ==
    LET data == table_data(p, tag)
        table == ReadTable(data.val.val)
    IN  IF IsErr(data) THEN data
        ELSE IF ~IsSome(data.val) THEN Ok(None)
        ELSE IF IsErr(table) THEN table
        ELSE Ok(Some([layout_cache |-> table.val]))

\* load_cblc_cbdt
load_cblc_cbdt(p) ==
    LET cblc_data == read_and_box_table(p, "CBLC")
        cbdt_data == read_and_box_table(p, "CBDT")
        cblc == ReadTable(cblc_data.val)
        cbdt == ReadTable(cbdt_data.val)
    IN  IF IsErr(cblc_data) THEN cblc_data
        ELSE IF IsErr(cbdt_data) THEN cbdt_data
        ELSE IF IsErr(cblc) THEN cblc
        ELSE IF IsErr(cbdt) THEN cbdt
        ELSE Ok(<<cblc.val, cbdt.val>>)

\* load_sbix
load_sbix(p) ==
    LET sbix_data == read_and_box_table(p, "sbix")
        sbix == ReadTable(sbix_data.val)
    IN  IF IsErr(sbix_data) THEN sbix_data
        ELSE sbix

\* load_svg
load_svg(p) ==
    LET svg_data == read_and_box_table(p, "SVG ")
        svg == ReadTable(svg_data.val)
    IN  IF IsErr(svg_data) THEN svg_data
        ELSE svg

\* The closure of embedded_images with the SVG load that the code has
\* disabled: SVG, or else CBLC/CBDT, or else sbix.
LoadImagesSvgFirst(p) ==
    LET svg == load_svg(p)
        embedded == load_cblc_cbdt(p)
        sbix == load_sbix(p)
    IN  IF IsOk(svg)
        THEN Ok(Some([images |-> "Svg", svg |-> svg.val]))
        ELSE IF IsOk(embedded)
        THEN Ok(Some([images |-> "Embedded", cblc |-> embedded.val[1],
                      cbdt |-> embedded.val[2]]))
        ELSE IF IsErr(sbix) THEN sbix
        ELSE Ok(Some([images |-> "Sbix", sbix |-> sbix.val]))

\* The closure of embedded_images with the two loads in the other order:
\* sbix, or else CBLC/CBDT.
LoadImagesSbixFirst(p) ==
    LET embedded == load_cblc_cbdt(p)
        sbix == load_sbix(p)
    IN  IF IsOk(sbix)
        THEN Ok(Some([images |-> "Sbix", sbix |-> sbix.val]))
        ELSE IF IsErr(embedded) THEN embedded
        ELSE Ok(Some([images |-> "Embedded", cblc |-> embedded.val[1],
                      cbdt |-> embedded.val[2]]))

\* The closure of embedded_images: CBLC/CBDT, or else sbix.
LoadImages(p) ==
    LET embedded == load_cblc_cbdt(p)
        sbix == load_sbix(p)
    IN  IF IsOk(embedded)
        THEN Ok(Some([images |-> "Embedded", cblc |-> embedded.val[1],
                      cbdt |-> embedded.val[2]]))
        ELSE IF IsErr(sbix) THEN sbix
        ELSE Ok(Some([images |-> "Sbix", sbix |-> sbix.val]))

\* glyph_info::advance: fails when the metrics bytes do not parse.
advance(maxp, hhea, mtx, glyph) ==
    IF mtx.well_formed THEN Ok(500 + glyph) ELSE Err("BadEof")

(***************************************************************************)
(* FontDataImpl::lookup_glyph_index                                        *)
(***************************************************************************)
\* cmap_subtable_data: &self.cmap_table[self.cmap_subtable_offset..], which
\* panics when the offset is past the end of the bytes.
cmap_subtable_data(f) ==
    IF f.cmap_subtable_offset > f.cmap_table.len
    THEN Panic("slice index out of range")
    ELSE Returned(f.cmap_subtable_offset)

lookup_glyph_index(f, char_code) ==
    LET data == cmap_subtable_data(f)
        cmap_subtable == ReadCmapSubtable(f.cmap_table, data.val)
        glyph == map_glyph(cmap_subtable.val, char_code)
    IN  IF data.kind = "Panic" THEN data
        ELSE IF IsErr(cmap_subtable) THEN Returned(0)
        ELSE IF IsOk(glyph) /\ IsSome(glyph.val) THEN Returned(glyph.val.val)
        ELSE Returned(0)

(***************************************************************************)
(* FontDataImpl::glyph_names                                               *)
(***************************************************************************)
HexDigits == Digits \o <<"A", "B", "C", "D", "E", "F">>

\* A number below 65536 as four hexadecimal digits.
Hex4(n) ==
    HexDigits[(n \div 4096) + 1] \o HexDigits[((n \div 256) % 16) + 1]
        \o HexDigits[((n \div 16) % 16) + 1] \o HexDigits[(n % 16) + 1]

\* The glyph names of the post table of the model's fonts.
PostNames == [gid \in 0..2 |-> IF gid = 0 THEN ".notdef" ELSE "A"]

\* GlyphNames::new(&cmap, post).glyph_name(gid): the name the post table has
\* for the glyph, or else a name made of a character that the cmap subtable
\* maps to the glyph, or else "g<index>".
glyph_name(cmap_subtable, post, gid) ==
    LET chars == {ch \in {65, 66} :
                    map_glyph(cmap_subtable.val[2], ch) = Ok(Some(gid))}
    IN  IF IsSome(post) /\ post.val.well_formed /\ gid \in DOMAIN PostNames
        THEN PostNames[gid]
        ELSE IF IsSome(cmap_subtable) /\ chars # {}
        THEN "uni" \o Hex4(SetMin(chars))
        ELSE "g" \o Decimal(gid)

glyph_names(f, p, ids) ==
    LET table == read_and_box_optional_table(p, "post")
        post == IF IsOk(table) THEN table.val ELSE None
        data == cmap_subtable_data(f)
        subtable == ReadCmapSubtable(f.cmap_table, data.val)
        cmap_subtable == IF IsOk(subtable)
                         THEN Some(<<f.cmap_subtable_encoding, subtable.val>>)
                         ELSE None
        glyph_names_of_ids ==
            [i \in 1..Len(ids) |-> glyph_name(cmap_subtable, post, ids[i])]
    IN  IF data.kind = "Panic" THEN data
        ELSE Returned(unique_glyph_names(glyph_names_of_ids))

(***************************************************************************)
(* The cache-backed accessors of FontDataImpl                              *)
(***************************************************************************)
NoCalls == [c \in CacheNames |-> 0]

\* What an accessor does: the caches afterwards, the value returned, and
\* the number of calls of each cache's closure.
AccessResult(cs, r, calls) ==
    [caches |-> cs, ret |-> r, calls |-> calls, entries |-> 0]

\* An accessor that is one get_or_load on the cache c.
Access(cs, c, do_load) ==
    LET r == get_or_load(cs[c], do_load)
    IN  AccessResult([cs EXCEPT ![c] = r.cache], r.ret,
                     [NoCalls EXCEPT ![c] = r.calls])

gdef_table(cs, p) == Access(cs, "gdef_cache", LoadOptionalTable(p, "GDEF"))
gsub_cache(cs, p) == Access(cs, "gsub_cache", LoadLayoutCache(p, "GSUB"))
\* gpos_cache keeping the GPOS layout cache in the LazyLoad of gsub_cache.
gpos_cache_in_gsub(cs, p) == Access(cs, "gsub_cache", LoadLayoutCache(p, "GPOS"))
gpos_cache(cs, p) == Access(cs, "gpos_cache", LoadLayoutCache(p, "GPOS"))
vhea_table(cs, p) == Access(cs, "vhea_table", LoadOptionalTable(p, "vhea"))
embedded_images(cs, p) == Access(cs, "embedded_images", LoadImages(p))

\* supports_emoji answering from the cache as it is, without loading it.
supports_emoji_no_load(cs, p) ==
    AccessResult(cs, Returned(cs["embedded_images"].kind = "Loaded"), NoCalls)

supports_emoji(cs, p) ==
    LET a == embedded_images(cs, p)
    IN  AccessResult(a.caches, Returned(IsOk(a.ret) /\ IsSome(a.ret.val)),
                     a.calls)

horizontal_advance(f, cs, glyph) ==
    LET adv == advance(f.maxp_table, f.hhea_table, f.hmtx_table, glyph)
    IN  AccessResult(cs, Returned(IF IsOk(adv) THEN Some(adv.val) ELSE None),
                     NoCalls)

head_table(cs, p) ==
    LET data == table_data(p, "head")
        head == ReadTable(data.val.val)
    IN  AccessResult(cs,
                     IF IsErr(data) THEN data
                     ELSE IF ~IsSome(data.val) THEN Ok(None)
                     ELSE IF IsErr(head) THEN head
                     ELSE Ok(Some(head.val)),
                     NoCalls)

os2_table(cs, p) ==
    LET data == table_data(p, "OS/2")
        os2 == ReadTable(data.val.val)
    IN  AccessResult(cs,
                     IF IsErr(data) THEN data
                     ELSE IF ~IsSome(data.val) THEN Ok(None)
                     ELSE IF IsErr(os2) THEN os2
                     ELSE Ok(Some(os2.val)),
                     NoCalls)

\* vertical_advance testing vhea only: without a vmtx table the advance is
\* computed from the hmtx bytes.
vertical_advance_vhea_only(f, cs, p, glyph) ==
    LET vmtx == Access(cs, "vmtx_table",
                       read_and_box_optional_table(p, "vmtx"))
        vhea == vhea_table(vmtx.caches, p)
        calls == [c \in CacheNames |-> vmtx.calls[c] + vhea.calls[c]]
        mtx == IF IsSome(vmtx.ret.val) THEN vmtx.ret.val.val ELSE f.hmtx_table
        adv == advance(f.maxp_table, vhea.ret.val.val, mtx, glyph)
    IN  IF IsErr(vmtx.ret)
        THEN AccessResult(vmtx.caches, Returned(None), vmtx.calls)
        ELSE IF IsErr(vhea.ret)
        THEN AccessResult(vhea.caches, Returned(None), calls)
        ELSE IF IsSome(vhea.ret.val)
        THEN AccessResult(vhea.caches,
                          IF IsErr(adv) THEN Panic("unwrap on an Err value")
                          ELSE Returned(Some(adv.val)),
                          calls)
        ELSE AccessResult(vhea.caches, Returned(None), calls)

vertical_advance(f, cs, p, glyph) ==
    LET vmtx == Access(cs, "vmtx_table",
                       read_and_box_optional_table(p, "vmtx"))
        vhea == vhea_table(vmtx.caches, p)
        calls == [c \in CacheNames |-> vmtx.calls[c] + vhea.calls[c]]
        adv == advance(f.maxp_table, vhea.ret.val.val, vmtx.ret.val.val, glyph)
    IN  IF IsErr(vmtx.ret)
        THEN AccessResult(vmtx.caches, Returned(None), vmtx.calls)
        ELSE IF IsErr(vhea.ret)
        THEN AccessResult(vhea.caches, Returned(None), calls)
        ELSE IF IsSome(vhea.ret.val) /\ IsSome(vmtx.ret.val)
        THEN AccessResult(vhea.caches,
                          IF IsErr(adv) THEN Panic("unwrap on an Err value")
                          ELSE Returned(Some(adv.val)),
                          calls)
        ELSE AccessResult(vhea.caches, Returned(None), calls)

(***************************************************************************)
(* FontDataImpl::lookup_glyph_image                                        *)
(***************************************************************************)
\* The absolute difference of two sizes.
Distance(a, b) == IF a < b THEN b - a ELSE a - b

\* find_strike of the CBLC and sbix tables: among the strikes at or under
\* max_bit_depth, the first one of the target size, or else one of the
\* nearest size, the larger one when two are equally near. The policy is one
\* of size and depth: the strike found is the same for every glyph_index.
find_strike(strikes, glyph_index, target_ppem, max_bit_depth) ==
    LET fits == {i \in 1..Len(strikes) : strikes[i].bit_depth <= max_bit_depth}
        nearest == {i \in fits : \A j \in fits :
                       Distance(strikes[i].ppem, target_ppem)
                           <= Distance(strikes[j].ppem, target_ppem)}
        largest == {i \in nearest : \A j \in nearest :
                       strikes[j].ppem <= strikes[i].ppem}
    IN  IF fits = {} THEN None ELSE Some(strikes[SetMin(largest)])

\* SbixStrike::read_glyph: the record of a glyph of the strike, None for a
\* glyph that has no data, an error for a record that does not parse or a
\* glyph index that the strike does not have.
read_glyph(strike, glyph_index) ==
    IF glyph_index \notin DOMAIN strike.glyphs THEN Err("BadIndex")
    ELSE LET slot == strike.glyphs[glyph_index]
         IN  IF slot.slot = "truncated" THEN Err("BadEof")
             ELSE IF slot.slot = "empty" THEN Ok(None)
             ELSE Ok(Some([graphic_type |-> slot.graphic_type,
                           data |-> slot.data]))

\* ReadCtxt::read_u16be on a byte sequence.
read_u16be(data) ==
    IF Len(data) < 2 THEN Err("BadEof") ELSE Ok(data[1] * 256 + data[2])

\* BitmapGlyph::from((strike, &glyph)) of an sbix glyph record.
SbixBitmapGlyph(strike, glyph) ==
    [ppem |-> strike.ppem,
     bitmap |-> [format |-> glyph.graphic_type, data |-> glyph.data]]

\* What lookup_sbix_glyph_bitmap does: the value returned and the number of
\* times the function was entered.
SbixResult(r, n) == [ret |-> r, entries |-> n]

RECURSIVE lookup_sbix_glyph_bitmap_two_hops(_, _, _, _, _)
RECURSIVE lookup_sbix_glyph_bitmap(_, _, _, _, _)

\* lookup_sbix_glyph_bitmap without the arm for 'dupe' records: the record of
\* the glyph is returned whatever its graphic type.
lookup_sbix_glyph_bitmap_no_dupe(sbix, dupe, glyph_index, target_ppem, max_bit_depth) ==
    LET strike == find_strike(sbix.strikes, glyph_index, target_ppem,
                              max_bit_depth)
        glyph == read_glyph(strike.val, glyph_index)
    IN  IF ~IsSome(strike) THEN SbixResult(Ok(None), 1)
        ELSE IF IsErr(glyph) THEN SbixResult(glyph, 1)
        ELSE IF IsSome(glyph.val)
        THEN SbixResult(Ok(Some(SbixBitmapGlyph(strike.val, glyph.val.val))), 1)
        ELSE SbixResult(Ok(None), 1)

\* lookup_sbix_glyph_bitmap with the test of `dupe` moved one level down: a
\* 'dupe' record met inside a dupe lookup is followed once more, and only a
\* 'dupe' record met there ends the lookup.
lookup_sbix_glyph_bitmap_two_hops(sbix, dupe, glyph_index, target_ppem, max_bit_depth) ==
    LET strike == find_strike(sbix.strikes, glyph_index, target_ppem,
                              max_bit_depth)
        glyph == read_glyph(strike.val, glyph_index)
        dupe_glyph_index == read_u16be(glyph.val.val.data)
        again == lookup_sbix_glyph_bitmap_two_hops(
                     sbix, TRUE, dupe_glyph_index.val, target_ppem,
                     max_bit_depth)
        last_strike == find_strike(sbix.strikes, dupe_glyph_index.val,
                                   target_ppem, max_bit_depth)
        last == read_glyph(last_strike.val, dupe_glyph_index.val)
    IN  IF ~IsSome(strike) THEN SbixResult(Ok(None), 1)
        ELSE IF IsErr(glyph) THEN SbixResult(glyph, 1)
        ELSE IF IsSome(glyph.val) /\ glyph.val.val.graphic_type = "dupe"
        THEN IF IsErr(dupe_glyph_index) THEN SbixResult(dupe_glyph_index, 1)
             ELSE IF ~dupe THEN SbixResult(again.ret, 1 + again.entries)
             ELSE IF IsErr(last) THEN SbixResult(last, 2)
             ELSE IF IsSome(last.val) /\ last.val.val.graphic_type # "dupe"
             THEN SbixResult(Ok(Some(SbixBitmapGlyph(last_strike.val,
                                                     last.val.val))), 2)
             ELSE SbixResult(Ok(None), 2)
        ELSE IF IsSome(glyph.val)
        THEN SbixResult(Ok(Some(SbixBitmapGlyph(strike.val, glyph.val.val))), 1)
        ELSE SbixResult(Ok(None), 1)

\* lookup_sbix_glyph_bitmap
lookup_sbix_glyph_bitmap(sbix, dupe, glyph_index, target_ppem, max_bit_depth) ==
    LET strike == find_strike(sbix.strikes, glyph_index, target_ppem,
                              max_bit_depth)
        glyph == read_glyph(strike.val, glyph_index)
        dupe_glyph_index == read_u16be(glyph.val.val.data)
        again == lookup_sbix_glyph_bitmap(sbix, TRUE, dupe_glyph_index.val,
                                          target_ppem, max_bit_depth)
    IN  IF ~IsSome(strike) THEN SbixResult(Ok(None), 1)
        ELSE IF IsErr(glyph) THEN SbixResult(glyph, 1)
        ELSE IF IsSome(glyph.val) /\ glyph.val.val.graphic_type = "dupe"
        THEN IF dupe THEN SbixResult(Ok(None), 1)
             ELSE IF IsErr(dupe_glyph_index)
             THEN SbixResult(dupe_glyph_index, 1)
             ELSE SbixResult(again.ret, 1 + again.entries)
        ELSE IF IsSome(glyph.val)
        THEN SbixResult(Ok(Some(SbixBitmapGlyph(strike.val, glyph.val.val))), 1)
        ELSE SbixResult(Ok(None), 1)

\* cbdt::lookup: the bitmap of the glyph in the matching strike, None for a
\* glyph the strike does not hold, an error for data that does not parse.
cbdt_lookup(glyph_index, matching_strike, cbdt) ==
    IF glyph_index \notin DOMAIN cbdt.glyphs THEN Ok(None)
    ELSE LET slot == cbdt.glyphs[glyph_index]
         IN  IF slot.slot = "truncated" THEN Err("BadEof")
             ELSE IF slot.slot = "empty" THEN Ok(None)
             ELSE Ok(Some([format |-> slot.format, data |-> slot.data]))

\* BitmapGlyph::try_from((&bitmap_size, bitmap)): fails for a bitmap format
\* that is not supported.
CbdtBitmapGlyph(matching_strike, bitmap) ==
    IF bitmap.format = "unsupported" THEN Err("NotImplemented")
    ELSE Ok([ppem |-> matching_strike.ppem, bitmap |-> bitmap])

\* std::u8::MAX and the largest u16, the type of target_ppem.
U8Max == 255
U16Max == 65535

\* The cast `target_ppem as u8` alone: the low eight bits of the size.
ClampedPpemWrapping(target_ppem) == target_ppem % (U8Max + 1)

\* The size handed to CBLCTable::find_strike: u8::MAX for a target_ppem above
\* u8::MAX, and else target_ppem cast to u8.
ClampedPpem(target_ppem) ==
    IF target_ppem > U8Max THEN U8Max ELSE target_ppem % (U8Max + 1)

\* The Images::Embedded arm of lookup_glyph_image.
LookupEmbedded(cblc, cbdt, glyph_index, target_ppem, max_bit_depth) ==
    LET ppem == ClampedPpem(target_ppem)
        matching_strike == find_strike(cblc.strikes, glyph_index, ppem,
                                       max_bit_depth)
        bitmap == cbdt_lookup(glyph_index, matching_strike.val, cbdt)
        glyph == CbdtBitmapGlyph(matching_strike.val, bitmap.val.val)
    IN  IF ~IsSome(matching_strike) THEN Ok(None)
        ELSE IF IsErr(bitmap) THEN bitmap
        ELSE IF ~IsSome(bitmap.val) THEN Ok(None)
        ELSE IF IsErr(glyph) THEN glyph
        ELSE Ok(Some(glyph.val))

\* SvgTable::lookup_glyph: the SVG document record that covers the glyph,
\* None for a glyph that no record covers, an error for a record that does
\* not parse.
svg_lookup_glyph(svg, glyph_index) ==
    IF glyph_index \notin DOMAIN svg.glyphs THEN Ok(None)
    ELSE LET slot == svg.glyphs[glyph_index]
         IN  IF slot.slot = "truncated" THEN Err("BadEof")
             ELSE Ok(Some(slot))

\* BitmapGlyph::try_from(&svg_record): fails for a document that cannot be
\* converted.
SvgBitmapGlyph(svg_record) ==
    IF svg_record.slot = "unconvertible" THEN Err("ReadError")
    ELSE Ok([ppem |-> 0,
             bitmap |-> [format |-> "svg ", data |-> svg_record.data]])

\* lookup_svg_glyph: the error of lookup_glyph and the error of the
\* conversion are both returned to the caller.
lookup_svg_glyph(svg, glyph_index) ==
    LET svg_record == svg_lookup_glyph(svg, glyph_index)
        glyph == SvgBitmapGlyph(svg_record.val.val)
    IN  IF IsErr(svg_record) THEN svg_record
        ELSE IF ~IsSome(svg_record.val) THEN Ok(None)
        ELSE IF IsErr(glyph) THEN glyph
        ELSE Ok(Some(glyph.val))

\* lookup_glyph_image: im is what the image tables of the provider hold, which
\* the parsed views of the cached bundle borrow from.
lookup_glyph_image(cs, p, im, glyph_index, target_ppem, max_bit_depth) ==
    LET a == embedded_images(cs, p)
        embedded_bitmaps == a.ret.val.val
        sbix == lookup_sbix_glyph_bitmap(im.sbix, FALSE, glyph_index,
                                         target_ppem, max_bit_depth)
    IN  IF IsErr(a.ret) THEN a
        ELSE IF ~IsSome(a.ret.val) THEN AccessResult(a.caches, Ok(None), a.calls)
        ELSE IF embedded_bitmaps.images = "Embedded"
        THEN AccessResult(a.caches,
                          LookupEmbedded(im.cblc, im.cbdt, glyph_index,
                                         target_ppem, max_bit_depth),
                          a.calls)
        ELSE IF embedded_bitmaps.images = "Sbix"
        THEN [AccessResult(a.caches, sbix.ret, a.calls)
                 EXCEPT !.entries = sbix.entries]
        ELSE AccessResult(a.caches, lookup_svg_glyph(im.svg, glyph_index),
                          a.calls)

(***************************************************************************)
(* Bounds and input families                                               *)
(***************************************************************************)
MaxNames == 3
MaxRecords == 2
\* The length of the one long input of unique_glyph_names, a run of one name
\* long enough for its count to pass 99.
LongRun == 101

NamePool == {"A", "B", "A.alt01", "A.alt02"}

SeqsUpTo(S, n) == UNION {[1..k -> S] : k \in 0..n}

\* The inputs of unique_glyph_names: every short sequence over the pool, and
\* the long run of "A".
NameInputs == SeqsUpTo(NamePool, MaxNames) \cup {[i \in 1..LongRun |-> "A"]}

\* Platform and encoding ids of the records given to the selection: the ids
\* the selection names, and one of each that it does not name.
PlatformIds == {PlatformUNICODE, PlatformMACINTOSH, 2, PlatformWINDOWS}
EncodingIds == {WINDOWS_SYMBOL, WINDOWS_UNICODE_BMP_UCS2, 3, WINDOWS_BIG5,
                WINDOWS_UNICODE_UCS4}
SelectionOffsets == {12, 20}
SelectionRecords ==
    {EncodingRecord(p, e, o) :
        p \in PlatformIds, e \in EncodingIds, o \in SelectionOffsets}

\* The cmap tables of the fonts a face is constructed from: no record or one
\* record, recognised or not, whose offset is the start of the subtable (12),
\* inside the subtable (16), past the end of the table (40), or too large
\* for a 16-bit usize (65536).
FaceOffsets == {12, 16, 40, 65536}
FaceRecords ==
    {EncodingRecord(pe[1], pe[2], o) :
        pe \in {<<PlatformWINDOWS, WINDOWS_UNICODE_BMP_UCS2>>,
                <<PlatformMACINTOSH, MACINTOSH_APPLE_ROMAN>>,
                <<2, 0>>},
        o \in FaceOffsets}
FaceCmaps ==
    {Cmap(records, sub) : records \in SeqsUpTo(FaceRecords, 1), sub \in Subtables}

UsizeWidths == {16, 64}
CharCodes == {65, 66, 128512}

\* The providers a face is constructed from: every required table is absent,
\* well-formed or corrupt, every outline table present or not, no other table.
FaceProviders ==
    {[t \in Tags |-> IF t \in RequiredTags THEN req[t]
                     ELSE IF t \in OutlineTags THEN out[t]
                     ELSE "absent"] :
        req \in {r \in [RequiredTags -> {"absent", "ok", "corrupt"}] :
                    r["hmtx"] # "corrupt"},
        out \in [OutlineTags -> {"absent", "ok"}]}

\* The providers of the faces whose accessors are called. The required
\* tables and glyf are there. Of the optional tables either each one is
\* absent or well-formed, CBLC and CBDT together and GSUB and GPOS together,
\* or one is corrupt or unreadable and the others are all absent or all
\* well-formed; head, OS/2 and post are then well-formed.
\* Or one of head, OS/2 and post is absent, corrupt or unreadable, or hmtx is
\* corrupt, or there is an SVG table, well-formed or corrupt, and the
\* optional tables are all absent or all well-formed.
AccessTags == OptionalTags \cup {"sbix"}
AccessStatuses ==
    {st \in [AccessTags -> {"absent", "ok"}] :
        st["CBLC"] = st["CBDT"] /\ st["GSUB"] = st["GPOS"]}
    \cup {[t \in AccessTags |-> IF t = bad THEN how ELSE rest] :
            bad \in AccessTags, how \in {"corrupt", "unreadable"},
            rest \in {"absent", "ok"}}
AccessProviders ==
    {[t \in Tags |-> IF t \in AccessTags THEN st[t]
                     ELSE IF t \in RequiredTags \cup InfoTags \cup {"glyf"}
                     THEN "ok"
                     ELSE "absent"] : st \in AccessStatuses}
    \cup {[t \in Tags |-> IF t = bad[1] THEN bad[2]
                          ELSE IF t \in AccessTags THEN rest
                          ELSE IF t \in RequiredTags \cup InfoTags \cup {"glyf"}
                          THEN "ok"
                          ELSE "absent"] :
            bad \in ((InfoTags \X {"absent", "corrupt", "unreadable"})
                        \cup {<<"hmtx", "corrupt">>, <<"SVG ", "ok">>,
                              <<"SVG ", "corrupt">>}),
            rest \in {"absent", "ok"}}
AccessCmap == Cmap(<<EncodingRecord(PlatformWINDOWS, WINDOWS_UNICODE_BMP_UCS2, 12)>>,
                   "dense")
GlyphIds == {0, 1}
GlyphIdLists == {<<0>>, <<36, 1, 2>>}

\* The glyphs of the sbix strikes and of the CBDT table.
MaxGlyph == 3
StrikeGlyphs == 1..MaxGlyph

\* The sizes and bit depths asked for: the size of a strike and a size above
\* u8::MAX; BitDepth::Eight and BitDepth::ThirtyTwo.
PpemArgs == {100, 300}
BitDepths == {8, 32}

\* The lookups made: every glyph at both sizes with every bit depth
\* accepted, and glyph 1 at size 100 with either bit depth.
ImageLookups ==
    (StrikeGlyphs \X PpemArgs \X {32}) \cup ({1} \X {100} \X BitDepths)

\* A glyph slot of an sbix strike: a 'png ' record, a 'dupe' record whose
\* data is the big-endian index of a glyph of the strike, a 'dupe' record
\* with one byte of data, a glyph without data, a record that does not parse.
PngSlot(data) == [slot |-> "glyph", graphic_type |-> "png ", data |-> data]
DupeSlot(data) == [slot |-> "glyph", graphic_type |-> "dupe", data |-> data]
EmptySlot == [slot |-> "empty"]
TruncatedSlot == [slot |-> "truncated"]
SbixSlots(g) ==
    {PngSlot(<<137, g>>), DupeSlot(<<0>>), EmptySlot, TruncatedSlot}
    \cup {DupeSlot(<<0, t>>) : t \in StrikeGlyphs}

\* The sbix tables: a strike of size 100 whose glyph slots are any of the
\* above, and a strike of size 200 with a 'png ' record for every glyph.
SbixTables ==
    {[strikes |-> <<[ppem |-> 100, bit_depth |-> 32, glyphs |-> glyphs],
                   [ppem |-> 200, bit_depth |-> 32,
                    glyphs |-> [g \in StrikeGlyphs |-> PngSlot(<<200, g>>)]]>>] :
        glyphs \in {gs \in [StrikeGlyphs -> UNION {SbixSlots(g) : g \in StrikeGlyphs}] :
                       \A g \in StrikeGlyphs : gs[g] \in SbixSlots(g)}}

\* The sbix table of tests/fonts/sbix/sbix-dupe.ttf: glyph 1 has an image,
\* glyph 2 is a dupe of glyph 1, glyph 3 a dupe of glyph 2.
SbixDupeTable ==
    [strikes |-> <<[ppem |-> 100, bit_depth |-> 32,
                    glyphs |-> [g \in StrikeGlyphs |->
                                   IF g = 1 THEN PngSlot(<<137, 1>>)
                                   ELSE IF g = 2 THEN DupeSlot(<<0, 1>>)
                                   ELSE IF g = 3 THEN DupeSlot(<<0, 2>>)
                                   ELSE EmptySlot]]>>]

\* A CBLC table with an 8-bit strike of size 44 and a 32-bit strike of size
\* 255, and a CBDT table where glyph 1 has a bitmap, glyph 2 a bitmap of a
\* format that is not supported, glyph 3 data that does not parse.
CblcTable == [strikes |-> <<[ppem |-> 44, bit_depth |-> 8],
                            [ppem |-> 255, bit_depth |-> 32]>>]
CbdtTable ==
    [glyphs |-> [g \in 1..3 |->
                    IF g = 1 THEN [slot |-> "glyph", format |-> "png ",
                                   data |-> <<137, 1>>]
                    ELSE IF g = 2 THEN [slot |-> "glyph",
                                        format |-> "unsupported",
                                        data |-> <<0>>]
                    ELSE TruncatedSlot]]

\* An SVG table where glyph 1 has a document, glyph 2 a record that does not
\* parse, glyph 3 a document that cannot be converted.
SvgTable ==
    [glyphs |-> [g \in 1..3 |->
                    IF g = 1 THEN [slot |-> "document", data |-> <<60, 115>>]
                    ELSE IF g = 2 THEN TruncatedSlot
                    ELSE [slot |-> "unconvertible", data |-> <<60, 115>>]]]

\* What the image tables of a provider hold, for an sbix table.
ImagesWith(sbix) ==
    [sbix |-> sbix, cblc |-> CblcTable, cbdt |-> CbdtTable, svg |-> SvgTable]

\* The providers of the faces whose images are looked up: the required tables
\* and glyf are there, CBLC and CBDT are each absent, well-formed or corrupt,
\* sbix is any of the four, no other table is there.
ImageProviders ==
    {[t \in Tags |-> IF t = "CBLC" THEN cblc
                     ELSE IF t = "CBDT" THEN cbdt
                     ELSE IF t = "sbix" THEN sbix
                     ELSE IF t \in RequiredTags \cup {"glyf"} THEN "ok"
                     ELSE "absent"] :
        cblc \in {"absent", "ok", "corrupt"},
        cbdt \in {"absent", "ok", "corrupt"},
        sbix \in TableStatus}

\* A provider with its image tables: the sbix table is any of SbixTables for
\* the provider that has a well-formed sbix and neither CBLC nor CBDT, and
\* the table of the test font for every other provider.
SbixOnly(p) == p["sbix"] = "ok" /\ p["CBLC"] = "absent" /\ p["CBDT"] = "absent"
ImageFonts ==
    {[provider |-> p, images |-> ImagesWith(sbix)] :
        p \in {q \in ImageProviders : SbixOnly(q)}, sbix \in SbixTables}
    \cup {[provider |-> p, images |-> ImagesWith(SbixDupeTable)] :
            p \in {q \in ImageProviders : ~SbixOnly(q)}}

\* The faces whose bitmap strikes are searched: CBLC and CBDT are well-formed,
\* sbix is there or not; the CBLC table is the one above, one with a single
\* 32-bit strike of size 255, or one without strikes.
CblcTables ==
    {CblcTable,
     [strikes |-> <<[ppem |-> 255, bit_depth |-> 32]>>],
     [strikes |-> <<>>]}
StrikeFonts ==
    {[provider |-> p,
      images |-> [ImagesWith(SbixDupeTable) EXCEPT !.cblc = cblc]] :
        p \in {q \in ImageProviders : q["CBLC"] = "ok" /\ q["CBDT"] = "ok"
                                       /\ q["sbix"] \in {"absent", "ok"}},
        cblc \in CblcTables}

\* The lookups in the bitmap strikes: a glyph that CBDT does not hold and the
\* three it holds, at sizes on both sides of u8::MAX and at the ends of u16,
\* with either bit depth.
StrikePpems == {0, 44, U8Max, U8Max + 1, 300, U16Max}
StrikeLookups == (0..3) \X StrikePpems \X BitDepths

NoCaches == <<>>
NoArg == <<>>

(***************************************************************************)
(* Specification of unique_glyph_names over bounded name sequences         *)
(***************************************************************************)
InitNames ==
    /\ pc = "names"
    /\ arg = NoArg
    /\ names \in NameInputs
    /\ unique_names = <<>>
    /\ seen_names = <<>>
    /\ cmap = Unused /\ good_cmap = Unused /\ provider = Unused
    /\ images = Unused /\ usize_bits = Unused /\ face = Unused
    /\ caches = Unused /\ invoked = Unused /\ entries = Unused
    /\ ret = Unused

\* One iteration of the for loop of unique_glyph_names, on the next name.
UniqueGlyphNamesStep ==
    /\ pc = "names"
    /\ Len(unique_names) < Len(names)
    /\ LET st == UniqueStep([seen |-> seen_names, out |-> unique_names],
                            names[Len(unique_names) + 1])
       IN  /\ seen_names' = st.seen
           /\ unique_names' = st.out
    /\ UNCHANGED <<pc, arg, names, cmap, good_cmap, provider, images,
                   usize_bits, face, caches, invoked, entries, ret>>

\* The iterator is exhausted: unique_glyph_names returns unique_names.
UniqueGlyphNames ==
    /\ pc = "names"
    /\ Len(unique_names) = Len(names)
    /\ pc' = "unique_glyph_names"
    /\ UNCHANGED <<arg, names, unique_names, seen_names, cmap, good_cmap,
                   provider, images, usize_bits, face, caches, invoked,
                   entries, ret>>

NextNames ==
    \/ UniqueGlyphNamesStep
    \/ UniqueGlyphNames

SpecNames == InitNames /\ [][NextNames]_vars

(***************************************************************************)
(* Specification of find_good_cmap_subtable over bounded record lists      *)
(***************************************************************************)
InitCmap ==
    /\ pc = "cmap"
    /\ arg = NoArg
    /\ cmap \in {Cmap(records, "dense") :
                    records \in SeqsUpTo(SelectionRecords, MaxRecords)}
    /\ good_cmap = None
    /\ names = Unused /\ unique_names = Unused /\ seen_names = Unused
    /\ provider = Unused /\ images = Unused /\ usize_bits = Unused
    /\ face = Unused /\ caches = Unused /\ invoked = Unused
    /\ entries = Unused /\ ret = Unused

FindGoodCmapSubtable ==
    /\ pc = "cmap"
    /\ pc' = "find_good_cmap_subtable"
    /\ good_cmap' = find_good_cmap_subtable(cmap)
    /\ UNCHANGED <<arg, names, unique_names, seen_names, cmap, provider,
                   images, usize_bits, face, caches, invoked, entries, ret>>

NextCmap == FindGoodCmapSubtable

SpecCmap == InitCmap /\ [][NextCmap]_vars

(***************************************************************************)
(* Specification of the construction of a face and of lookup_glyph_index   *)
(***************************************************************************)
InitNew ==
    /\ pc = "start"
    /\ arg = NoArg
    /\ provider \in FaceProviders
    /\ cmap \in FaceCmaps
    /\ usize_bits \in UsizeWidths
    /\ face = None
    /\ caches = NoCaches
    /\ invoked = {}
    /\ ret = None
    /\ names = Unused /\ unique_names = Unused /\ seen_names = Unused
    /\ good_cmap = Unused /\ images = Unused /\ entries = Unused

\* FontDataImpl::new(provider)
New ==
    /\ pc = "start"
    /\ pc' = "new"
    /\ LET r == FontDataImplNew(provider, cmap, usize_bits)
       IN  /\ ret' = r
           /\ face' = IF IsOk(r) THEN r.val ELSE None
           /\ caches' = IF IsOk(r) /\ IsSome(r.val)
                        THEN [c \in CacheNames |-> NotLoaded]
                        ELSE NoCaches
    /\ UNCHANGED <<arg, names, unique_names, seen_names, cmap, good_cmap,
                   provider, images, usize_bits, invoked, entries>>

\* face.lookup_glyph_index(char_code)
LookupGlyphIndex(char_code) ==
    /\ pc \in {"new", "lookup_glyph_index"}
    /\ IsSome(face)
    /\ pc' = "lookup_glyph_index"
    /\ arg' = <<char_code>>
    /\ ret' = lookup_glyph_index(face.val, char_code)
    /\ UNCHANGED <<names, unique_names, seen_names, cmap, good_cmap,
                   provider, images, usize_bits, face, caches, invoked,
                   entries>>

NextNew ==
    \/ New
    \/ \E char_code \in CharCodes : LookupGlyphIndex(char_code)

SpecNew == InitNew /\ [][NextNew]_vars

(***************************************************************************)
(* Specification of a constructed face and its cache-backed accessors      *)
(***************************************************************************)
Init ==
    /\ pc = "new"
    /\ arg = NoArg
    /\ provider \in AccessProviders
    /\ images = ImagesWith(SbixDupeTable)
    /\ cmap = AccessCmap
    /\ usize_bits = 64
    /\ face = FontDataImplNew(provider, cmap, usize_bits).val
    /\ caches = [c \in CacheNames |-> NotLoaded]
    /\ invoked = NoCalls
    /\ entries = 0
    /\ ret = None
    /\ names = Unused /\ unique_names = Unused /\ seen_names = Unused
    /\ good_cmap = Unused

\* The effect of an operation that starts by resetting the offset of the
\* cmap subtable.
DoesResettingOffset(op, a, r) ==
    /\ pc' = op
    /\ arg' = a
    /\ caches' = r.caches
    /\ invoked' = r.calls
    /\ entries' = r.entries
    /\ ret' = r.ret
    /\ face' = [face EXCEPT !.val.cmap_subtable_offset = 0]
    /\ UNCHANGED <<names, unique_names, seen_names, cmap, good_cmap,
                   provider, images, usize_bits>>

\* The effect of an operation on the state: no operation assigns to a field
\* of the face other than its caches.
Does(op, a, r) ==
    /\ pc' = op
    /\ arg' = a
    /\ caches' = r.caches
    /\ invoked' = r.calls
    /\ entries' = r.entries
    /\ ret' = r.ret
    /\ UNCHANGED <<names, unique_names, seen_names, cmap, good_cmap,
                   provider, images, usize_bits, face>>

GdefTable == Does("gdef_table", NoArg, gdef_table(caches, provider))
GsubCache == Does("gsub_cache", NoArg, gsub_cache(caches, provider))
GposCache == Does("gpos_cache", NoArg, gpos_cache(caches, provider))
VheaTable == Does("vhea_table", NoArg, vhea_table(caches, provider))
SupportsEmoji == Does("supports_emoji", NoArg, supports_emoji(caches, provider))
VerticalAdvance(glyph) ==
    Does("vertical_advance", <<glyph>>,
         vertical_advance(face.val, caches, provider, glyph))
LookupGlyphImage(glyph_index, target_ppem, max_bit_depth) ==
    Does("lookup_glyph_image", <<glyph_index, target_ppem, max_bit_depth>>,
         lookup_glyph_image(caches, provider, images, glyph_index,
                            target_ppem, max_bit_depth))

\* The operations that no cache backs.
GlyphIndex(char_code) ==
    Does("lookup_glyph_index", <<char_code>>,
         AccessResult(caches, lookup_glyph_index(face.val, char_code), NoCalls))
GlyphNames(ids) ==
    Does("glyph_names", <<ids>>,
         AccessResult(caches, glyph_names(face.val, provider, ids), NoCalls))
HorizontalAdvance(glyph) ==
    Does("horizontal_advance", <<glyph>>,
         horizontal_advance(face.val, caches, glyph))
HeadTable == Does("head_table", NoArg, head_table(caches, provider))
Os2Table == Does("os2_table", NoArg, os2_table(caches, provider))

Next ==
    \/ GdefTable
    \/ GsubCache
    \/ GposCache
    \/ VheaTable
    \/ SupportsEmoji
    \/ \E glyph \in GlyphIds : VerticalAdvance(glyph)
    \/ \E glyph \in GlyphIds : HorizontalAdvance(glyph)
    \/ \E glyph \in GlyphIds : LookupGlyphImage(glyph, 100, 32)
    \/ \E char_code \in {65, 128512} : GlyphIndex(char_code)
    \/ \E ids \in GlyphIdLists : GlyphNames(ids)
    \/ HeadTable
    \/ Os2Table

Spec == Init /\ [][Next]_vars

(***************************************************************************)
(* Specification of the embedded images of a constructed face              *)
(***************************************************************************)
InitImages ==
    /\ pc = "new"
    /\ arg = NoArg
    /\ \E font \in ImageFonts :
          /\ provider = font.provider
          /\ images = font.images
    /\ cmap = AccessCmap
    /\ usize_bits = 64
    /\ face = FontDataImplNew(provider, cmap, usize_bits).val
    /\ caches = [c \in CacheNames |-> NotLoaded]
    /\ invoked = NoCalls
    /\ entries = 0
    /\ ret = None
    /\ names = Unused /\ unique_names = Unused /\ seen_names = Unused
    /\ good_cmap = Unused

NextImages ==
    \/ SupportsEmoji
    \/ \E lookup \in ImageLookups :
          LookupGlyphImage(lookup[1], lookup[2], lookup[3])

SpecImages == InitImages /\ [][NextImages]_vars

(***************************************************************************)
(* Specification of the bitmap strikes of a constructed face               *)
(***************************************************************************)
InitStrikes ==
    /\ pc = "new"
    /\ arg = NoArg
    /\ \E font \in StrikeFonts :
          /\ provider = font.provider
          /\ images = font.images
    /\ cmap = AccessCmap
    /\ usize_bits = 64
    /\ face = FontDataImplNew(provider, cmap, usize_bits).val
    /\ caches = [c \in CacheNames |-> NotLoaded]
    /\ invoked = NoCalls
    /\ entries = 0
    /\ ret = None
    /\ names = Unused /\ unique_names = Unused /\ seen_names = Unused
    /\ good_cmap = Unused

NextStrikes ==
    \E lookup \in StrikeLookups :
        LookupGlyphImage(lookup[1], lookup[2], lookup[3])

SpecStrikes == InitStrikes /\ [][NextStrikes]_vars

(***************************************************************************)
(* Properties                                                              *)
(***************************************************************************)
\* The accessor that returns what get_or_load on the cache c returns.
AccessorOf(c) ==
    CASE c = "gdef_cache" -> "gdef_table"
      [] c = "gsub_cache" -> "gsub_cache"
      [] c = "gpos_cache" -> "gpos_cache"
      [] c = "vhea_table" -> "vhea_table"
      [] OTHER -> "none"

\* The operations that go through the cache c.
UsersOf(c) ==
    CASE c = "vmtx_table" -> {"vertical_advance"}
      [] c = "vhea_table" -> {"vhea_table", "vertical_advance"}
      [] c = "embedded_images" -> {"supports_emoji", "lookup_glyph_image"}
      [] OTHER -> {AccessorOf(c)}

\* What the closure given to get_or_load for the cache c produces.
ClosureOf(c, p) ==
    CASE c = "gdef_cache" -> LoadOptionalTable(p, "GDEF")
      [] c = "gsub_cache" -> LoadLayoutCache(p, "GSUB")
      [] c = "gpos_cache" -> LoadLayoutCache(p, "GPOS")
      [] c = "vhea_table" -> LoadOptionalTable(p, "vhea")
      [] c = "vmtx_table" -> read_and_box_optional_table(p, "vmtx")
      [] c = "embedded_images" -> LoadImages(p)

\* The call just made reached get_or_load on the cache c.
Reaches(c) ==
    /\ pc' \in UsersOf(c)
    /\ (c = "vhea_table" /\ pc' = "vertical_advance")
          => (caches["vmtx_table"].kind = "Loaded"
              \/ IsOk(ClosureOf("vmtx_table", provider)))

\* C1: get_or_load on a cache that is not loaded, with a closure that
\* succeeds, calls the closure exactly once, leaves the cache loaded with
\* the Option the closure produced, and returns that Option.
C1_FirstLoad ==
    [][\A c \in CacheNames :
          (/\ Reaches(c)
           /\ caches[c] = NotLoaded
           /\ IsOk(ClosureOf(c, provider)))
          => /\ invoked'[c] = 1
             /\ caches'[c] = Loaded(ClosureOf(c, provider).val)
             /\ pc' = AccessorOf(c) => ret' = Ok(ClosureOf(c, provider).val)]_vars

\* gdef_table has just loaded a GDEF table that the provider has.
C1_Witness ==
    /\ pc = "gdef_table"
    /\ invoked["gdef_cache"] = 1
    /\ caches["gdef_cache"] = Loaded(Some([table |-> "GDEF"]))
    /\ ret = Ok(Some([table |-> "GDEF"]))

\* C2: when the closure fails, the cache stays not loaded, the error is
\* returned, and the next call on that cache calls its closure again.
C2_FailedLoad ==
    [][\A c \in CacheNames :
          (/\ Reaches(c)
           /\ caches[c] = NotLoaded
           /\ IsErr(ClosureOf(c, provider)))
          => /\ invoked'[c] = 1
             /\ caches'[c] = NotLoaded
             /\ pc' = AccessorOf(c) => ret' = ClosureOf(c, provider)]_vars

\* gsub_cache has failed on a corrupt GSUB table twice in a row: the state
\* after the second call, which found the cache not loaded and called the
\* closure again.
C2_Witness ==
    /\ pc = "gsub_cache"
    /\ provider["GSUB"] = "corrupt"
    /\ invoked["gsub_cache"] = 1
    /\ caches["gsub_cache"] = NotLoaded
    /\ ret = Err("BadValue")

\* C3: once a cache is loaded, present or absent, no call changes it or
\* calls its closure, and its accessor returns the stored value; for the
\* embedded images, supports_emoji answers from the stored value.
C3_LoadedIsFinal ==
    [][\A c \in CacheNames :
          caches[c].kind = "Loaded"
          => /\ caches'[c] = caches[c]
             /\ invoked'[c] = 0
             /\ pc' = AccessorOf(c) => ret' = Ok(caches[c].val)
             /\ (c = "embedded_images" /\ pc' = "supports_emoji")
                   => ret' = Returned(IsSome(caches[c].val))]_vars

\* gpos_cache was called on a cache already loaded as absent: the closure
\* was not called and Ok(None) came back.
C3_Witness ==
    /\ pc = "gpos_cache"
    /\ provider["GPOS"] = "absent"
    /\ invoked["gpos_cache"] = 0
    /\ caches["gpos_cache"] = Loaded(None)
    /\ ret = Ok(None)

\* The seven platform/encoding patterns of the selection, in their order.
PatternMatches(k, r) ==
    CASE k = 1 -> r.platform_id = PlatformWINDOWS
                  /\ r.encoding_id = WINDOWS_UNICODE_UCS4
      [] k = 2 -> r.platform_id = PlatformWINDOWS
                  /\ r.encoding_id = WINDOWS_UNICODE_BMP_UCS2
      [] k = 3 -> r.platform_id = PlatformUNICODE
                  /\ r.encoding_id = MACINTOSH_UNICODE_UCS4
      [] k = 4 -> r.platform_id = PlatformUNICODE
      [] k = 5 -> r.platform_id = PlatformWINDOWS
                  /\ r.encoding_id = WINDOWS_SYMBOL
      [] k = 6 -> r.platform_id = PlatformMACINTOSH
                  /\ r.encoding_id = MACINTOSH_APPLE_ROMAN
      [] k = 7 -> r.platform_id = PlatformWINDOWS
                  /\ r.encoding_id = WINDOWS_BIG5

PatternEncoding(k) ==
    CASE k \in 1..4 -> "Unicode"
      [] k = 5 -> "Symbol"
      [] k = 6 -> "AppleRoman"
      [] k = 7 -> "Big5"

\* The patterns that some record of the cmap matches.
PatternsHit(c) ==
    {k \in 1..7 :
        \E i \in 1..Len(c.encoding_records) :
            PatternMatches(k, c.encoding_records[i])}

\* C4: find_good_cmap_subtable returns a record of the cmap that matches the
\* first of the seven patterns, in their order, that any record matches,
\* with that pattern's classification; it returns None exactly when no
\* record matches any pattern.
C4_SelectionPriority ==
    pc = "find_good_cmap_subtable" =>
        LET hit == PatternsHit(cmap)
        IN  IF hit = {} THEN good_cmap = None
            ELSE LET k == SetMin(hit)
                 IN  /\ IsSome(good_cmap)
                     /\ good_cmap.val[1] = PatternEncoding(k)
                     /\ PatternMatches(k, good_cmap.val[2])
                     /\ \E i \in 1..Len(cmap.encoding_records) :
                            cmap.encoding_records[i] = good_cmap.val[2]

\* A cmap with an Apple Roman record ahead of a Windows Symbol record, for
\* which the Symbol record was returned.
C4_Witness ==
    /\ pc = "find_good_cmap_subtable"
    /\ Len(cmap.encoding_records) = 2
    /\ PatternMatches(6, cmap.encoding_records[1])
    /\ PatternMatches(5, cmap.encoding_records[2])
    /\ good_cmap = Some(<<"Symbol", cmap.encoding_records[2]>>)

\* C5: new over a provider whose cmap table parses but has no record that
\* matches a recognised platform/encoding pair returns Ok(None), not an error.
C5_NoUsableFace ==
    (pc = "new" /\ provider["cmap"] = "ok" /\ PatternsHit(cmap) = {})
        => ret = Ok(None)

\* new returned Ok(None) for such a cmap although maxp is missing.
C5_Witness ==
    /\ pc = "new"
    /\ provider["cmap"] = "ok"
    /\ PatternsHit(cmap) = {}
    /\ Len(cmap.encoding_records) = 1
    /\ provider["maxp"] = "absent"
    /\ ret = Ok(None)

\* A required table is missing or does not parse (hmtx is only read).
RequiredTableFails(p) ==
    \/ p["cmap"] # "ok"
    \/ p["maxp"] # "ok"
    \/ p["hmtx"] = "absent"
    \/ p["hhea"] # "ok"

\* The offset of the chosen record does not fit the usize of the target.
OffsetUnconvertible(c, bits) ==
    /\ PatternsHit(c) # {}
    /\ bits < 32
    /\ find_good_cmap_subtable(c).val[2].offset >= 2 ^ bits

\* C6 as stated: new returns an error whenever a table of the required set
\* is missing or fails to parse, and whenever the offset of the chosen
\* subtable cannot be converted to usize.
C6_Original ==
    (pc = "new" /\ (RequiredTableFails(provider)
                    \/ OffsetUnconvertible(cmap, usize_bits)))
        => IsErr(ret)

\* C6, amended: new returns an error whenever the cmap table is missing or
\* fails to parse, and, when the cmap has a record of a recognised pair,
\* whenever maxp, hmtx or hhea is missing, maxp or hhea fails to parse, or
\* the offset of the chosen record cannot be converted to usize.
C6_RequiredTableErrors ==
    (/\ pc = "new"
     /\ \/ provider["cmap"] # "ok"
        \/ /\ PatternsHit(cmap) # {}
           /\ \/ RequiredTableFails(provider)
              \/ OffsetUnconvertible(cmap, usize_bits))
        => IsErr(ret)

\* new failed on the conversion alone: every required table is fine and the
\* chosen offset is 65536 on a target with a 16-bit usize.
C6_Witness ==
    /\ pc = "new"
    /\ ~RequiredTableFails(provider)
    /\ OffsetUnconvertible(cmap, usize_bits)
    /\ ret = Err("TryFromIntError")

\* C7: the outline format of a constructed face is None if the provider has
\* an sbix or an SVG table, else Glyf if it has glyf, else Cff if it has CFF,
\* else None.
C7_OutlineFormat ==
    (pc = "new" /\ IsOk(ret) /\ IsSome(ret.val)) =>
        ret.val.val.outline_format =
            (CASE provider["sbix"] # "absent" \/ provider["SVG "] # "absent"
                    -> "None"
               [] provider["sbix"] = "absent" /\ provider["SVG "] = "absent"
                  /\ provider["glyf"] # "absent" -> "Glyf"
               [] provider["sbix"] = "absent" /\ provider["SVG "] = "absent"
                  /\ provider["glyf"] = "absent" /\ provider["CFF "] # "absent"
                    -> "Cff"
               [] OTHER -> "None")

\* A face constructed from a provider with both sbix and glyf: None.
C7_Witness ==
    /\ pc = "new"
    /\ IsSome(face)
    /\ provider["sbix"] = "ok"
    /\ provider["glyf"] = "ok"
    /\ face.val.outline_format = "None"

\* C8: the cmap subtable offset of every constructed face is at most the
\* length of the stored cmap bytes.
C8_OffsetInRange ==
    IsSome(face) => face.val.cmap_subtable_offset <= face.val.cmap_table.len

\* C9: lookup_glyph_index returns the mapped glyph index when the subtable
\* parses and maps the code, and 0 in every other case; it never aborts.
C9_LookupNeverFails ==
    pc = "lookup_glyph_index" =>
        LET f == face.val
            sub == ReadCmapSubtable(f.cmap_table, f.cmap_subtable_offset)
            glyph == map_glyph(sub.val, arg[1])
        IN  ret = IF IsOk(sub) /\ IsOk(glyph) /\ IsSome(glyph.val)
                  THEN Returned(glyph.val.val)
                  ELSE Returned(0)

\* C10: the names returned by unique_glyph_names are pairwise distinct.
C10_NamesDistinct ==
    pc = "unique_glyph_names" =>
        \A i, j \in 1..Len(unique_names) :
            i # j => unique_names[i] # unique_names[j]

\* The number of occurrences of the i-th name before position i.
EarlierOccurrences(ns, i) == Cardinality({j \in 1..(i - 1) : ns[j] = ns[i]})

\* The numerals of exactly two decimal digits whose value is n.
TwoDigitNumerals(n) ==
    {Digits[a + 1] \o Digits[b + 1] :
        a \in {x \in 0..9 : \E y \in 0..9 : 10 * x + y = n},
        b \in {y \in 0..9 : y = n % 10}}

\* The numerals of exactly three decimal digits, the first not 0, whose
\* value is n.
ThreeDigitNumerals(n) ==
    {Digits[a + 1] \o Digits[b + 1] \o Digits[c + 1] :
        a \in {x \in 1..9 : x = n \div 100},
        b \in {y \in 0..9 : y = (n \div 10) % 10},
        c \in {z \in 0..9 : z = n % 10}}

\* C11 as stated: the output of unique_glyph_names has the length and order
\* of the input; a name that has not occurred earlier is unchanged, and a
\* name with n earlier occurrences is followed by ".alt" and n written with
\* exactly two digits.
C11_Original ==
    pc = "unique_glyph_names" =>
        /\ Len(unique_names) = Len(names)
        /\ \A i \in 1..Len(names) :
              LET n == EarlierOccurrences(names, i)
              IN  IF n = 0 THEN unique_names[i] = names[i]
                  ELSE unique_names[i] \in
                          {names[i] \o ".alt" \o d : d \in TwoDigitNumerals(n)}

\* C11: the output of unique_glyph_names has the length and order of the
\* input; a name that has not occurred earlier is unchanged, and a name with
\* n earlier occurrences is followed by ".alt" and n in decimal, with two
\* digits when n is below 100 and with three digits from 100 on.
C11_AltSuffix ==
    pc = "unique_glyph_names" =>
        /\ Len(unique_names) = Len(names)
        /\ \A i \in 1..Len(names) :
              LET n == EarlierOccurrences(names, i)
              IN  IF n = 0 THEN unique_names[i] = names[i]
                  ELSE unique_names[i] \in
                          {names[i] \o ".alt" \o d :
                              d \in IF n < 100 THEN TwoDigitNumerals(n)
                                    ELSE ThreeDigitNumerals(n)}

C11_Witness ==
    /\ pc = "unique_glyph_names"
    /\ Len(names) > 100
    /\ EarlierOccurrences(names, 101) = 100
    /\ unique_names[1] = "A"
    /\ unique_names[3] = "A.alt02"
    /\ unique_names[101] = "A.alt100"

\* The arm of the cached embedded-image bundle, "none" while there is none.
ArmOf(cs) ==
    IF cs["embedded_images"].kind = "Loaded"
       /\ IsSome(cs["embedded_images"].val)
    THEN cs["embedded_images"].val.val.images
    ELSE "none"
CachedArm == ArmOf(caches)

\* The image that an sbix strike holds for a 'png ' slot.
ImageOfSlot(strike, slot) ==
    [ppem |-> strike.ppem,
     bitmap |-> [format |-> slot.graphic_type, data |-> slot.data]]

\* C12: in the sbix arm, a lookup of a glyph whose record is a 'dupe' of a
\* glyph with an image returns that glyph's image, the same as a lookup of
\* that glyph with the same size and bit depth; a 'dupe' of a glyph whose
\* record is a 'dupe' too returns Ok(None); a record that is not a 'dupe'
\* returns its own image.
C12_SbixDupe ==
    (pc = "lookup_glyph_image" /\ CachedArm = "Sbix") =>
        LET strike == find_strike(images.sbix.strikes, arg[1], arg[2], arg[3])
            slots == strike.val.glyphs
            own == slots[arg[1]]
            target == slots[own.data[2]]
            direct == lookup_glyph_image(caches, provider, images, own.data[2],
                                         arg[2], arg[3])
        IN  (IsSome(strike) /\ own.slot = "glyph") =>
                IF own.graphic_type # "dupe"
                THEN ret = Ok(Some(ImageOfSlot(strike.val, own)))
                ELSE (Len(own.data) = 2 /\ target.slot = "glyph") =>
                        IF target.graphic_type = "dupe"
                        THEN ret = Ok(None)
                        ELSE /\ ret = Ok(Some(ImageOfSlot(strike.val, target)))
                             /\ ret = direct.ret

\* The lookup of glyph 2 of the test font, a 'dupe' of glyph 1, at size 100:
\* the image of glyph 1 came back, and glyph 3 is a 'dupe' of glyph 2.
C12_Witness ==
    /\ pc = "lookup_glyph_image"
    /\ CachedArm = "Sbix"
    /\ arg = <<2, 100, 32>>
    /\ images.sbix.strikes[1].glyphs[1] = PngSlot(<<137, 1>>)
    /\ images.sbix.strikes[1].glyphs[2] = DupeSlot(<<0, 1>>)
    /\ images.sbix.strikes[1].glyphs[3] = DupeSlot(<<0, 2>>)
    /\ entries = 2
    /\ ret = Ok(Some([ppem |-> 100,
                      bitmap |-> [format |-> "png ", data |-> <<137, 1>>]]))

\* The arm that the tables of the provider p resolve to.
ArmFor(p) ==
    IF p["CBLC"] = "ok" /\ p["CBDT"] = "ok" THEN "Embedded"
    ELSE IF p["sbix"] = "ok" THEN "Sbix"
    ELSE "none"

\* C13: after an access to the embedded images the cached bundle is the
\* bitmap-strikes arm whenever CBLC and CBDT both read and parse, whatever
\* sbix is, and the sbix arm only when they do not and sbix does; a bundle
\* once cached is kept, and every lookup is answered by the cached arm.
C13_ResolutionOrder ==
    [][pc' \in {"lookup_glyph_image", "supports_emoji"} =>
          /\ ArmOf(caches') = ArmFor(provider)
          /\ CachedArm # "none" => ArmOf(caches') = CachedArm
          /\ (pc' = "lookup_glyph_image" /\ ArmOf(caches') = "Embedded") =>
                /\ entries' = 0
                /\ ret' = LookupEmbedded(images.cblc, images.cbdt, arg'[1],
                                         arg'[2], arg'[3])
          /\ (pc' = "lookup_glyph_image" /\ ArmOf(caches') = "Sbix") =>
                /\ entries' >= 1
                /\ ret' = lookup_sbix_glyph_bitmap(images.sbix, FALSE, arg'[1],
                                                   arg'[2], arg'[3]).ret]_vars

\* A later lookup on a face whose provider has well-formed CBLC, CBDT and
\* sbix tables: the cached bundle is the bitmap-strikes arm, and the bitmap
\* came from CBDT.
C13_Witness ==
    /\ pc = "lookup_glyph_image"
    /\ provider["CBLC"] = "ok" /\ provider["CBDT"] = "ok"
    /\ provider["sbix"] = "ok"
    /\ invoked["embedded_images"] = 0
    /\ CachedArm = "Embedded"
    /\ entries = 0
    /\ arg = <<1, 300, 32>>
    /\ ret = Ok(Some([ppem |-> 255,
                      bitmap |-> [format |-> "png ", data |-> <<137, 1>>]]))

\* C14: on a face whose provider has neither a usable CBLC/CBDT pair nor a
\* usable sbix table, lookup_glyph_image returns Ok(None) for every glyph,
\* size and bit depth.
C14_NoImagesIsNone ==
    (pc = "lookup_glyph_image" /\ ArmFor(provider) = "none") => ret = Ok(None)

\* C15: supports_emoji returns true exactly when the embedded-image bundle
\* resolves, false otherwise, never an error, and the same on every call.
C15_SupportsEmoji ==
    [][pc' = "supports_emoji" =>
          /\ ret' = Returned(ArmFor(provider) # "none")
          /\ pc = "supports_emoji" => ret' = ret]_vars

\* A second call of supports_emoji on a face that has sbix images only.
C15_Witness ==
    /\ pc = "supports_emoji"
    /\ provider["CBLC"] = "absent"
    /\ provider["sbix"] = "ok"
    /\ invoked["embedded_images"] = 0
    /\ CachedArm = "Sbix"
    /\ ret = Returned(TRUE)

\* C16: vertical_advance returns no value for every glyph when vhea or vmtx
\* is absent; it reads both through their caches: a loaded cache is used as
\* it is, and after a call in which both loads succeed both are loaded.
C16_VerticalAdvance ==
    [][pc' = "vertical_advance" =>
          /\ (provider["vhea"] = "absent" \/ provider["vmtx"] = "absent")
                => ret' = Returned(None)
          /\ (provider["vmtx"] # "unreadable"
                 /\ provider["vhea"] \in {"absent", "ok"})
                => /\ caches'["vmtx_table"].kind = "Loaded"
                   /\ caches'["vhea_table"].kind = "Loaded"
                   /\ IsSome(caches'["vmtx_table"].val)
                         <=> provider["vmtx"] # "absent"
                   /\ IsSome(caches'["vhea_table"].val)
                         <=> provider["vhea"] # "absent"
          /\ \A c \in {"vmtx_table", "vhea_table"} :
                caches[c].kind = "Loaded"
                => (invoked'[c] = 0 /\ caches'[c] = caches[c])]_vars

\* vertical_advance on a face with a vmtx table and no vhea table: no value,
\* and both caches are loaded, vhea as absent.
C16_Witness ==
    /\ pc = "vertical_advance"
    /\ provider["vmtx"] = "ok"
    /\ provider["vhea"] = "absent"
    /\ invoked["vmtx_table"] = 1
    /\ invoked["vhea_table"] = 1
    /\ caches["vmtx_table"].kind = "Loaded"
    /\ IsSome(caches["vmtx_table"].val)
    /\ caches["vhea_table"] = Loaded(None)
    /\ ret = Returned(None)

\* The table that an accessor of an optional table reads, and its cache.
TableOf(op) ==
    CASE op = "gdef_table" -> "GDEF"
      [] op = "gsub_cache" -> "GSUB"
      [] op = "gpos_cache" -> "GPOS"
      [] op = "vhea_table" -> "vhea"
CacheOf(op) ==
    CASE op = "gdef_table" -> "gdef_cache"
      [] op = "gsub_cache" -> "gsub_cache"
      [] op = "gpos_cache" -> "gpos_cache"
      [] op = "vhea_table" -> "vhea_table"

\* C17: gdef_table, gsub_cache, gpos_cache and vhea_table return Ok(None)
\* and leave their cache loaded as absent when the provider does not have
\* the table; they return an error only when the table cannot be read or
\* does not parse.
C17_AbsentIsNone ==
    pc \in {"gdef_table", "gsub_cache", "gpos_cache", "vhea_table"} =>
        /\ provider[TableOf(pc)] = "absent"
              => (ret = Ok(None) /\ caches[CacheOf(pc)] = Loaded(None))
        /\ IsErr(ret) => provider[TableOf(pc)] \in {"corrupt", "unreadable"}

\* The first gdef_table on a face without a GDEF table.
C17_Witness ==
    /\ pc = "gdef_table"
    /\ provider["GDEF"] = "absent"
    /\ invoked["gdef_cache"] = 1
    /\ caches["gdef_cache"] = Loaded(None)
    /\ ret = Ok(None)

\* The operations of a constructed face.
Operations ==
    {"lookup_glyph_index", "glyph_names", "lookup_glyph_image",
     "supports_emoji", "horizontal_advance", "vertical_advance", "head_table",
     "os2_table", "gdef_table", "gsub_cache", "gpos_cache", "vhea_table"}

\* C18: no operation on a constructed face, whether it succeeds or fails,
\* changes the outline format, the chosen cmap encoding, the offset of the
\* cmap subtable, or the stored cmap and hmtx bytes.
C18_FaceIsFixed ==
    [][pc' \in Operations =>
          /\ face'.val.outline_format = face.val.outline_format
          /\ face'.val.cmap_subtable_encoding = face.val.cmap_subtable_encoding
          /\ face'.val.cmap_subtable_offset = face.val.cmap_subtable_offset
          /\ face'.val.cmap_table = face.val.cmap_table
          /\ face'.val.hmtx_table = face.val.hmtx_table]_vars

\* A failed lookup_glyph_image on a face whose other caches have all been
\* loaded by earlier operations: the face is as new made it.
C18_Witness ==
    /\ pc = "lookup_glyph_image"
    /\ IsErr(ret)
    /\ \A c \in CacheNames \ {"embedded_images"} : caches[c].kind = "Loaded"
    /\ face = FontDataImplNew(provider, cmap, usize_bits).val
    /\ face.val.cmap_subtable_offset = 12
    /\ face.val.outline_format = "Glyf"

\* The lookup just made met a 'dupe' record with a readable glyph index at
\* its first entry of lookup_sbix_glyph_bitmap.
FollowsDupe ==
    /\ ArmOf(caches') = "Sbix"
    /\ LET strike == find_strike(images.sbix.strikes, arg'[1], arg'[2], arg'[3])
       IN  /\ IsSome(strike)
           /\ arg'[1] \in DOMAIN strike.val.glyphs
           /\ strike.val.glyphs[arg'[1]].slot = "glyph"
           /\ strike.val.glyphs[arg'[1]].graphic_type = "dupe"
           /\ Len(strike.val.glyphs[arg'[1]].data) = 2

\* C19: a lookup_glyph_image call enters lookup_sbix_glyph_bitmap at most
\* twice, whatever the sbix table holds, 'dupe' records that point to
\* themselves or in a cycle included; the one hop is there for every call
\* anew: a lookup that meets a 'dupe' record enters exactly twice, whatever
\* the lookups before it did.
C19_BoundedDupe ==
    [][pc' = "lookup_glyph_image" =>
          /\ entries' <= 2
          /\ ArmOf(caches') = "Sbix" => entries' >= 1
          /\ FollowsDupe => entries' = 2]_vars

\* The lookup of a glyph whose 'dupe' record points to the glyph itself:
\* two entries, and no image.
C19_Witness ==
    /\ pc = "lookup_glyph_image"
    /\ CachedArm = "Sbix"
    /\ invoked["embedded_images"] = 0
    /\ arg = <<1, 100, 32>>
    /\ images.sbix.strikes[1].glyphs[1] = DupeSlot(<<0, 1>>)
    /\ images.sbix.strikes[1].glyphs[2] = DupeSlot(<<0, 3>>)
    /\ images.sbix.strikes[1].glyphs[3] = DupeSlot(<<0, 2>>)
    /\ entries = 2
    /\ ret = Ok(None)

\* C20: horizontal_advance and vertical_advance return no value whenever
\* the advance cannot be computed from the metrics bytes, and never abort:
\* horizontal_advance when hmtx does not parse, vertical_advance when vmtx
\* does not parse, with a vhea table or without.
C20_AdvanceNeverAborts ==
    /\ pc \in {"horizontal_advance", "vertical_advance"}
          => ret.kind = "Returned"
    /\ (pc = "horizontal_advance" /\ provider["hmtx"] = "corrupt")
          => ret = Returned(None)
    /\ (pc = "vertical_advance" /\ provider["vmtx"] = "corrupt")
          => ret = Returned(None)

\* The smaller of two numbers.
Min(a, b) == IF a < b THEN a ELSE b

\* C21: the size searched for in the bitmap strikes is min(target_ppem, 255)
\* for every target_ppem of 0..65535, never the size modulo 256: a lookup
\* answered by the bitmap-strikes arm returns what the strike found for that
\* size holds. It returns Ok(None), not an error, when no strike matches and
\* when the matching strike has no bitmap for the glyph.
C21_ClampedSearch ==
    /\ \A target_ppem \in 0..U16Max :
          ClampedPpem(target_ppem) = Min(target_ppem, U8Max)
    /\ (pc = "lookup_glyph_image" /\ CachedArm = "Embedded") =>
          LET strike == find_strike(images.cblc.strikes, arg[1],
                                    Min(arg[2], U8Max), arg[3])
              bitmap == cbdt_lookup(arg[1], strike.val, images.cbdt)
          IN  /\ ~IsSome(strike) => ret = Ok(None)
              /\ (IsSome(strike) /\ bitmap = Ok(None)) => ret = Ok(None)
              /\ (IsSome(strike) /\ IsOk(ret) /\ IsSome(ret.val))
                    => ret.val.val.ppem = strike.val.ppem

\* A lookup at size 65535 in strikes of sizes 44 and 255: the bitmap is the
\* one of the strike of size 255.
C21_Witness ==
    /\ pc = "lookup_glyph_image"
    /\ CachedArm = "Embedded"
    /\ images.cblc = CblcTable
    /\ arg = <<1, U16Max, 32>>
    /\ ret = Ok(Some([ppem |-> U8Max,
                      bitmap |-> [format |-> "png ", data |-> <<137, 1>>]]))

\* C22: whatever operations a face has been through, its embedded-image
\* cache is not loaded, or holds the bitmap-strikes bundle, or holds the sbix
\* bundle: it never holds an SVG bundle and is never loaded as absent.
C22_ImageCacheStates ==
    \/ caches["embedded_images"] = NotLoaded
    \/ /\ caches["embedded_images"].kind = "Loaded"
       /\ IsSome(caches["embedded_images"].val)
       /\ CachedArm \in {"Embedded", "Sbix"}

\* A lookup on a face whose only image table is a well-formed SVG table,
\* after every other cache has been loaded: the closure ran and failed, and
\* the embedded-image cache is still not loaded.
C22_Witness ==
    /\ pc = "lookup_glyph_image"
    /\ provider["SVG "] = "ok"
    /\ provider["CBLC"] = "absent" /\ provider["sbix"] = "absent"
    /\ invoked["embedded_images"] = 1
    /\ IsErr(ret)
    /\ caches["embedded_images"] = NotLoaded
    /\ caches["gdef_cache"] = Loaded(None)

\* The caches that an operation may load.
OwnCaches(op) ==
    CASE op = "gdef_table" -> {"gdef_cache"}
      [] op = "gsub_cache" -> {"gsub_cache"}
      [] op = "gpos_cache" -> {"gpos_cache"}
      [] op = "vhea_table" -> {"vhea_table"}
      [] op = "vertical_advance" -> {"vmtx_table", "vhea_table"}
      [] op \in {"lookup_glyph_image", "supports_emoji"} -> {"embedded_images"}
      [] op \in {"lookup_glyph_index", "glyph_names", "horizontal_advance",
                 "head_table", "os2_table"} -> {}

\* C23: the six caches of a face that new has just made are all NotLoaded,
\* and an operation leaves every cache that is not its own as it was:
\* gdef_table, gsub_cache, gpos_cache and vhea_table have their one cache,
\* vertical_advance has vmtx and vhea, lookup_glyph_image and supports_emoji
\* have the embedded images, and lookup_glyph_index, glyph_names,
\* horizontal_advance, head_table and os2_table have none.
C23_OwnCaches ==
    /\ [](pc = "new" =>
            /\ DOMAIN caches = CacheNames
            /\ Cardinality(CacheNames) = 6
            /\ \A c \in CacheNames : caches[c] = NotLoaded)
    /\ [][/\ pc' \in Operations
          /\ \A c \in CacheNames \ OwnCaches(pc') : caches'[c] = caches[c]]_vars

\* The first vertical_advance on a face with vhea and vmtx, after a
\* gdef_table: the vmtx and vhea caches are loaded by it, the GDEF cache is
\* as gdef_table left it, and the other three are still not loaded.
C23_Witness ==
    /\ pc = "vertical_advance"
    /\ invoked["vmtx_table"] = 1 /\ invoked["vhea_table"] = 1
    /\ caches["vmtx_table"].kind = "Loaded" /\ IsSome(caches["vmtx_table"].val)
    /\ caches["vhea_table"].kind = "Loaded" /\ IsSome(caches["vhea_table"].val)
    /\ caches["gdef_cache"].kind = "Loaded"
    /\ \A c \in {"gsub_cache", "gpos_cache", "embedded_images"} :
          caches[c] = NotLoaded
====
